---------------------------- MODULE Spec2Model ----------------------------
(***************************************************************************)
(* Model of IntercomBroker (src/src/services/intercom/intercom-broker.ts): *)
(* the inbound NOTIFY and HEARTBEAT handlers, parseFromIntString and the   *)
(* reply continuation of getNewAddress.                                    *)
(*                                                                         *)
(* The NOTIFY handler is an async function without a database transaction: every  *)
(* `await getConnection()...` is one statement committed on its own, and   *)
(* another handler may run between two awaits.  One action below is one    *)
(* await together with the synchronous code that follows it.               *)
(*                                                                         *)
(* The five tables outlive the broker process, so the rows present when    *)
(* the broker starts are input: Init draws the job rows from a small set.   *)
(* user_wallet_address is never written here.                              *)
(***************************************************************************)
EXTENDS Integers, Sequences, FiniteSets, TLC

\* ------------------------------------------------------------------ bounds
MaxNotify == 2        \* NOTIFY messages delivered in one behaviour
MaxBalances == 2      \* length of json.balances
MaxNotifyConc == 2    \* messages delivered when handlers or pipelines overlap
MaxBalancesConc == 1  \* length of json.balances in those behaviours
MaxHeartbeat == 2     \* HEARTBEAT messages delivered in one behaviour
MaxDigits == 4        \* length of the integer string given to the parser
MaxPrecision == 3     \* precision given to the parser
MaxRequests == 3      \* getNewAddress calls made in one behaviour

\* ------------------------------------------------------- program constants
ConfirmThreshold == 3
Precision == 8

\* ------------------------------------------------------------ value spaces
NULL == "null"
undefined == [undefined |-> TRUE]   \* no row, no object
Txids == {"T1", "T2"}
Users == {"U1", "U2"}
Addresses == {"A1", "A2", "A3", "A4"}
Confs == {0, 3, 5}
BalStrs == {<<1>>, <<2>>}          \* integer strings, as digit sequences
Procs == {1, 2}                    \* handler invocations that may overlap

BalEntries == [address : Addresses, balance : BalStrs]

BalanceLists(n) == UNION {[1..m -> BalEntries] : m \in 0..n}

\* a NOTIFY as delivered.  The handler looks at json.balances only in the
\* for-of loop of "Check Job", so the list is drawn when that loop is entered
\* (read = TRUE from then on) and not when the message arrives.
Payloads == [txid : Txids, confirmations : Confs, balances : {<<>>}, read : {FALSE}]

VARIABLES
    user_wallet_tx,        \* sequence of rows, in insertion order
    user_wallet_job,       \* txid -> job row, for the txids that have one
    user_wallet_address,   \* address -> userId, or NULL when unmapped
    user_wallet_balance,   \* userId -> balance, for the users that have a row
    notify,                \* per invocation: position and local variables
    delivered,             \* number of NOTIFY messages delivered so far
    credits,               \* txid -> number of invocations that credited it
    promotions,            \* txid -> number of invocations that wrote its job
    atStart,               \* tables as a redelivered NOTIFY found them
    owed,                  \* txid -> user -> amount attributed at completion
    user_wallet_status,    \* sequence of rows, in insertion order
    heartbeat,             \* per invocation of the HEARTBEAT handler
    pending,               \* queries sent and not awaited, not yet executed
    now,                   \* the clock read by new Date()
    hbDelivered,           \* number of HEARTBEAT messages delivered so far
    unhandled,             \* rejections of promises that nobody awaits
    heard,                 \* coin -> the heartbeats handled, in order
    parse,                 \* a call of parseFromIntString and its result
    gna,                   \* a call of getNewAddress and what its cb received
    requests               \* number of getNewAddress calls made so far

tables == <<user_wallet_tx, user_wallet_job, user_wallet_balance>>
ghosts == <<credits, promotions, owed>>
vars == <<user_wallet_tx, user_wallet_job, user_wallet_address,
          user_wallet_balance, notify, delivered, credits, promotions, atStart,
          owed, user_wallet_status, heartbeat, pending, now, hbDelivered,
          unhandled, heard, parse, gna, requests>>

\* the state of the NOTIFY pipeline
notifyvars == <<user_wallet_tx, user_wallet_job, user_wallet_address,
                user_wallet_balance, notify, delivered, credits, promotions,
                atStart, owed>>
\* the state of the HEARTBEAT pipeline
hbvars == <<user_wallet_status, heartbeat, pending, now, hbDelivered,
            unhandled, heard>>
\* the state of the outbound calls
gnavars == <<gna, requests>>
\* what the NOTIFY handler never touches
others == <<hbvars, parse, gnavars>>

\* ------------------------------------------------- parseFromIntString etc.
\* String.prototype.substring(a, b) on a digit sequence (0-based, b exclusive)
substring(s, a, b) == SubSeq(s, a + 1, b)

RECURSIVE PadLoop(_, _, _, _)
PadLoop(intString, precision, i, decimals) ==
    IF i >= precision THEN decimals
    ELSE IF i <= Len(intString) - 1
         THEN PadLoop(intString, precision, i + 1,
                      decimals \o substring(intString, i, i + 1))
         ELSE PadLoop(intString, precision, i + 1, <<0>> \o decimals)

\* parseFromIntString whose else branch copies the string and does not pad
parseFromIntStringUnpadded(intString, precision) ==
    LET length == Len(intString) IN
    IF length > precision
    THEN [integers |-> substring(intString, 0, length - precision),
          decimals |-> substring(intString, length - precision, length)]
    ELSE [integers |-> <<0>>, decimals |-> intString]

\* the text "<integers>.<decimals>" as its two digit sequences
parseFromIntString(intString, precision) ==
    LET length == Len(intString) IN
    IF length > precision
    THEN [integers |-> substring(intString, 0, length - precision),
          decimals |-> substring(intString, length - precision, length)]
    ELSE [integers |-> <<0>>,
          decimals |-> PadLoop(intString, precision, 0, <<>>)]

RECURSIVE DigitsValue(_)
DigitsValue(s) ==
    IF s = <<>> THEN 0 ELSE 10 * DigitsValue(SubSeq(s, 1, Len(s) - 1)) + s[Len(s)]

RECURSIVE Pow10(_)
Pow10(n) == IF n = 0 THEN 1 ELSE 10 * Pow10(n - 1)

\* parseFloat of "<integers>.<decimals>", as a count of 10^-Precision units
\* (the rounding of the binary float is not modelled)
parseFloat(text) ==
    DigitsValue(text.integers) * Pow10(Precision)
      + DigitsValue(text.decimals) * Pow10(Precision - Len(text.decimals))

\* ------------------------------------------------------------ table helpers
TxIndexes(txid) == {n \in 1..Len(user_wallet_tx) : user_wallet_tx[n].txid = txid}

\* an update of user_wallet_tx without its where clause
UpdateTxEverywhere(txid, updated) == updated

\* .update('user_wallet_tx').set(...).where({txid}): every row of the txid
\* takes its value from `updated`, the table with the set applied to each row
UpdateTxWhere(txid, updated) ==
    [n \in 1..Len(user_wallet_tx) |->
        IF user_wallet_tx[n].txid = txid THEN updated[n] ELSE user_wallet_tx[n]]

\* a map whose set keeps the value that a key already has
MapSetKeepFirst(users, address, value) ==
    IF \E n \in 1..Len(users) : users[n].address = address
    THEN users
    ELSE Append(users, [address |-> address, value |-> value])

\* Map.prototype.set on the `users` map, kept as its entries in key order
MapSet(users, address, value) ==
    IF \E n \in 1..Len(users) : users[n].address = address
    THEN [n \in 1..Len(users) |->
            IF users[n].address = address
            THEN [address |-> address, value |-> value] ELSE users[n]]
    ELSE Append(users, [address |-> address, value |-> value])


\* ---------------------------------------------------------------- handler
Fresh == [pc |-> "idle", json |-> undefined, jobe |-> FALSE, txe |-> FALSE,
          users |-> <<>>, bal |-> 0, usr |-> 0,
          nbal |-> 0, credited |-> FALSE, promoted |-> FALSE]

Resting == {"idle", "replied", "rejected"}

\* the handler returns: what it leaves behind is the payload it handled and
\* whether sendReply was called ("replied") or the promise rejected
Finished(h, how) == [Fresh EXCEPT !.pc = how, !.json = h.json]

Goto(p, h) == notify' = [notify EXCEPT ![p] = h]

\* the wallet delivers a NOTIFY; JSON.parse(rxData)
Deliver(p, json) ==
    /\ notify[p].pc \in Resting
    /\ Goto(p, [Fresh EXCEPT !.pc = "getJob", !.json = json])
    /\ delivered' = delivered + 1
    /\ UNCHANGED <<tables, user_wallet_address, ghosts, others>>

\* const jobe = await ... from('user_wallet_job').where({ job }).getCount() > 0
GetJob(p) ==
    LET h == notify[p] IN
    /\ h.pc = "getJob"
    /\ Goto(p, [h EXCEPT !.pc = "getTx",
                         !.jobe = h.json.txid \in DOMAIN user_wallet_job])
    /\ UNCHANGED <<tables, user_wallet_address, delivered, ghosts, atStart, others>>

\* `!jobe && !tx.complete && ...`: tx is a const declared further down in the
\* same function body, so reading it here throws; && reaches tx.complete
\* exactly when jobe is false
CreateJobThrows(jobe) == ~jobe

\* const txe = await ... from('user_wallet_tx').where({ txid }).getCount() > 0,
\* then the "Create Job" condition
GetTx(p) ==
    LET h == notify[p] IN
    /\ h.pc = "getTx"
    /\ IF CreateJobThrows(h.jobe)
       THEN Goto(p, Finished(h, "rejected"))
       ELSE Goto(p, [h EXCEPT !.pc = "ensureTx",
                              !.txe = TxIndexes(h.json.txid) # {}])
    /\ UNCHANGED <<tables, user_wallet_address, delivered, ghosts, atStart, others>>

\* the row of "Create Tx Entry"; complete and processed take the column default
NewTxRow(json) ==
    [userId |-> NULL, txid |-> json.txid, txtype |-> 1,
     confirms |-> json.confirmations, complete |-> FALSE, processed |-> FALSE,
     amount |-> 0]

\* the .set({ confirms }) of "Update Tx Entry"
SetConfirms(row, json) == [row EXCEPT !.confirms = json.confirmations]

\* "Create Tx Entry" taken whether or not the txid has a row
EnsureTxAlwaysInsert(p) ==
    LET h == notify[p] IN
    /\ h.pc = "ensureTx"
    /\ user_wallet_tx' = Append(user_wallet_tx, NewTxRow(h.json))
    /\ Goto(p, [h EXCEPT !.pc = "readTx"])
    /\ UNCHANGED <<user_wallet_job, user_wallet_balance, user_wallet_address,
                   delivered, ghosts, atStart, others>>

\* "Create Tx Entry" / "Update Tx Entry"
EnsureTx(p) ==
    LET h == notify[p] IN
    /\ h.pc = "ensureTx"
    /\ user_wallet_tx' =
          IF ~h.txe THEN Append(user_wallet_tx, NewTxRow(h.json))
          ELSE UpdateTxWhere(h.json.txid,
                  [n \in 1..Len(user_wallet_tx) |->
                      SetConfirms(user_wallet_tx[n], h.json)])
    /\ Goto(p, [h EXCEPT !.pc = "readTx"])
    /\ UNCHANGED <<user_wallet_job, user_wallet_balance, user_wallet_address,
                   delivered, ghosts, atStart, others>>

\* "Check Job" without the test of tx.complete
CheckJobNoComplete(tx, json) ==
    /\ tx # undefined
    /\ json.confirmations >= ConfirmThreshold

\* "Check Job" that only tests that the row was found
CheckJobFoundOnly(tx, json) == tx # undefined

\* the condition of "Check Job"
CheckJob(tx, json) ==
    /\ tx # undefined
    /\ ~tx.complete
    /\ json.confirmations >= ConfirmThreshold

\* const tx = await ... from('user_wallet_tx').where({ txid }).getOne():
\* any one row of the txid (the query has no ORDER BY), then "Check Job"
ReadTx(p, maxBalances) ==
    LET h == notify[p] IN
    /\ h.pc = "readTx"
    /\ \E tx \in IF TxIndexes(h.json.txid) = {} THEN {undefined}
                 ELSE {user_wallet_tx[n] : n \in TxIndexes(h.json.txid)} :
          IF CheckJob(tx, h.json)
          THEN \E balances \in IF h.json.read THEN {h.json.balances}
                                ELSE BalanceLists(maxBalances) :
                  Goto(p, [h EXCEPT !.bal = 1,
                             !.json.balances = balances, !.json.read = TRUE,
                             !.pc = IF balances = <<>> THEN "finalize"
                                    ELSE "attribute"])
          ELSE Goto(p, Finished(h, "replied"))
    /\ UNCHANGED <<tables, user_wallet_address, delivered, ghosts, atStart, others>>


\* the .set({ userId, state: 3, result: "okay" }) of "Process Job"
ProcessJob(job, userId) ==
    [job EXCEPT !.userId = userId, !.state = 3, !.result = "okay"]

\* the row of "Create & Process Job"
NewProcessedJob(userId) == [state |-> 3, userId |-> userId, result |-> NULL]

\* one turn of `for (var bal of json.balances)`: look the address up and,
\* when it belongs to a user, users.set(...) and write the job row
Attribute(p) ==
    LET h == notify[p]
        txid == h.json.txid
        bal == h.json.balances[h.bal]
        userId == user_wallet_address[bal.address]
        next == IF h.bal = Len(h.json.balances) THEN "finalize" ELSE "attribute"
    IN
    /\ h.pc = "attribute"
    /\ IF userId # NULL
       THEN /\ user_wallet_job' =
                  IF ~h.jobe
                  THEN [t \in DOMAIN user_wallet_job \cup {txid} |->
                          IF t = txid THEN NewProcessedJob(userId)
                          ELSE user_wallet_job[t]]
                  ELSE IF txid \notin DOMAIN user_wallet_job THEN user_wallet_job
                  ELSE [user_wallet_job EXCEPT
                           ![txid] = ProcessJob(user_wallet_job[txid], userId)]
            /\ Goto(p, [h EXCEPT !.pc = next, !.bal = h.bal + 1,
                          !.promoted = TRUE,
                          !.users = MapSet(h.users, bal.address,
                                   [userId |-> userId, balance |-> bal.balance])])
            /\ promotions' = IF h.promoted THEN promotions
                             ELSE [promotions EXCEPT ![txid] = @ + 1]
       ELSE /\ Goto(p, [h EXCEPT !.pc = next, !.bal = h.bal + 1])
            /\ UNCHANGED <<user_wallet_job, promotions>>
    /\ UNCHANGED <<user_wallet_tx, user_wallet_balance, user_wallet_address,
                   delivered, credits, owed, atStart, others>>

\* parseFloat(this.parseFromIntString(users.get(usr).balance, 8))
Amount(balance) == parseFloat(parseFromIntString(balance, Precision))

\* the entry of json.balances that the attribution set keeps for an address:
\* the last one listed
LastEntry(balances, address) ==
    LET listed == {n \in 1..Len(balances) : balances[n].address = address}
    IN balances[CHOOSE n \in listed : \A m \in listed : m <= n]

RECURSIVE SumOwed(_, _)
SumOwed(balances, addresses) ==
    IF addresses = {} THEN 0
    ELSE LET a == CHOOSE x \in addresses : TRUE
         IN Amount(LastEntry(balances, a).balance)
              + SumOwed(balances, addresses \ {a})

\* what a NOTIFY carries for a user: the amounts of the listed addresses that
\* belong to the user
OwedTo(balances, u) ==
    SumOwed(balances,
            {a \in Addresses :
                /\ user_wallet_address[a] = u
                /\ \E n \in 1..Len(balances) : balances[n].address = a})

\* the .set({ confirms, complete, processed }) after the attribution loop
SetFinal(row, json) ==
    [row EXCEPT !.confirms = json.confirmations,
                !.complete = (json.confirmations >= ConfirmThreshold),
                !.processed = TRUE]

\* "Update Tx Entry" after the attribution loop
Finalize(p) ==
    LET h == notify[p] IN
    /\ h.pc = "finalize"
    /\ user_wallet_tx' =
          UpdateTxWhere(h.json.txid,
              [n \in 1..Len(user_wallet_tx) |->
                  SetFinal(user_wallet_tx[n], h.json)])
    /\ IF h.users = <<>>
       THEN Goto(p, Finished(h, "replied"))
       ELSE Goto(p, [h EXCEPT !.pc = "insertCredit", !.usr = 1])
    /\ owed' = IF \E n \in TxIndexes(h.json.txid) : user_wallet_tx[n].complete
               THEN owed
               ELSE [owed EXCEPT ![h.json.txid] =
                        [u \in Users |-> OwedTo(h.json.balances, u)]]
    /\ UNCHANGED <<user_wallet_job, user_wallet_balance, user_wallet_address,
                   delivered, credits, promotions, atStart, others>>

\* user_wallet_tx without the composite unique key
NoUniqueKey(txid, uid) == FALSE

\* the composite unique key (txid, txType, userId) of user_wallet_tx; rows
\* whose userId is null never collide
DuplicateCredit(txid, uid) ==
    \E n \in TxIndexes(txid) :
        user_wallet_tx[n].txtype = 3 /\ user_wallet_tx[n].userId = uid

\* the row of "Add Tx Entry" (`processed: users.get(usr)` stores an object,
\* which is truthy)
CreditRow(json, uid, bal) ==
    [userId |-> uid, txid |-> json.txid, txtype |-> 3,
     confirms |-> json.confirmations, complete |-> TRUE, processed |-> TRUE,
     amount |-> bal]

\* one turn of `for (var usr of users.keys())`, up to the insert
InsertCredit(p) ==
    LET h == notify[p]
        txid == h.json.txid
        bal == Amount(h.users[h.usr].value.balance)
        uid == h.users[h.usr].value.userId
    IN
    /\ h.pc = "insertCredit"
    /\ IF DuplicateCredit(txid, uid)
       THEN /\ Goto(p, Finished(h, "rejected"))
            /\ UNCHANGED <<user_wallet_tx, credits>>
       ELSE /\ user_wallet_tx' = Append(user_wallet_tx, CreditRow(h.json, uid, bal))
            /\ Goto(p, [h EXCEPT !.pc = "getBalance", !.credited = TRUE])
            /\ credits' = IF h.credited THEN credits
                          ELSE [credits EXCEPT ![txid] = @ + 1]
    /\ UNCHANGED <<user_wallet_job, user_wallet_balance, user_wallet_address,
                   delivered, promotions, owed, atStart, others>>

\* let nbal = userBalance.balance + bal, taken as the sum of two numbers
NewBalance(userBalance, bal) == userBalance + bal

\* "Get current Balance"; userBalance.balance throws when there is no row
GetBalance(p) ==
    LET h == notify[p]
        bal == Amount(h.users[h.usr].value.balance)
        uid == h.users[h.usr].value.userId
    IN
    /\ h.pc = "getBalance"
    /\ IF uid \notin DOMAIN user_wallet_balance
       THEN Goto(p, Finished(h, "rejected"))
       ELSE Goto(p, [h EXCEPT !.pc = "updateBalance",
                       !.nbal = NewBalance(user_wallet_balance[uid], bal)])
    /\ UNCHANGED <<tables, user_wallet_address, delivered, ghosts, atStart, others>>

\* "Update Balance" (`balance: nbal;` read as `balance: nbal`), the end of the
\* loop turn and, after the last turn, sendReply('Recieved NOTIFY')
UpdateBalance(p) ==
    LET h == notify[p]
        uid == h.users[h.usr].value.userId
    IN
    /\ h.pc = "updateBalance"
    /\ user_wallet_balance' =
          IF uid \notin DOMAIN user_wallet_balance THEN user_wallet_balance
          ELSE [user_wallet_balance EXCEPT ![uid] = h.nbal]
    /\ IF h.usr = Len(h.users)
       THEN Goto(p, Finished(h, "replied"))
       ELSE Goto(p, [h EXCEPT !.pc = "insertCredit", !.usr = h.usr + 1,
                              !.nbal = 0])
    /\ UNCHANGED <<user_wallet_tx, user_wallet_job, user_wallet_address,
                   delivered, ghosts, atStart, others>>

\* -------------------------------------------------------------- HEARTBEAT
Coins == {"X", "Y"}

\* a HEARTBEAT as delivered
HbPayloads ==
    [coin : Coins, online : BOOLEAN, synced : {TRUE}, crawling : {FALSE},
     blockheight : {900, 901}, bestBlockHash : {"G", "H"},
     blocktime : {1700000000}]

\* the updatedAt of a row whose insert gave the column no value
NoDate == 0

\* the row of the insert: .values({ type, online, ..., blocktime }), which
\* names no updatedAt
InsertedStatus(json) ==
    [type |-> json.coin, online |-> json.online, synced |-> json.synced,
     crawling |-> json.crawling, blockheight |-> json.blockheight,
     blockhash |-> json.bestBlockHash, blocktime |-> json.blocktime,
     updatedAt |-> NoDate]

\* the .set({ online, ..., blocktime, updatedAt: new Date() }) of the update
SetStatus(row, json, at) ==
    [row EXCEPT !.online = json.online, !.synced = json.synced,
                !.crawling = json.crawling, !.blockheight = json.blockheight,
                !.blockhash = json.bestBlockHash, !.blocktime = json.blocktime,
                !.updatedAt = at]

\* the unique key on user_wallet_status(type)
DuplicateStatus(coin) ==
    \E n \in 1..Len(user_wallet_status) : user_wallet_status[n].type = coin

HbIdle == [pc |-> "idle", json |-> undefined]

\* the wallet delivers a HEARTBEAT; JSON.parse(rxData)
HbDeliver(p, json) ==
    /\ heartbeat[p].pc = "idle"
    /\ heartbeat' = [heartbeat EXCEPT ![p] = [pc |-> "count", json |-> json]]
    /\ hbDelivered' = hbDelivered + 1
    /\ UNCHANGED <<user_wallet_status, pending, now, unhandled, heard,
                   notifyvars, parse, gnavars>>

\* const status = await ... .where({ type: json.coin }).getCount() > 0, then
\* the update or the insert is sent without await, and sendReply is called
HbCount(p) ==
    LET json == heartbeat[p].json
        status == \E n \in 1..Len(user_wallet_status) :
                     user_wallet_status[n].type = json.coin
    IN
    /\ heartbeat[p].pc = "count"
    /\ pending' = Append(pending,
                     [op |-> IF status THEN "update" ELSE "insert",
                      json |-> json, at |-> now])
    /\ heard' = [heard EXCEPT ![json.coin] =
                    Append(@, [json |-> json, at |-> now])]
    /\ now' = now + 1
    /\ heartbeat' = [heartbeat EXCEPT ![p] = HbIdle]
    /\ UNCHANGED <<user_wallet_status, hbDelivered, unhandled,
                   notifyvars, parse, gnavars>>

\* the database executes one of the queries that were sent without await;
\* they go through a connection pool, so in no particular order.  A failing
\* insert rejects a promise that has no handler
ExecuteQuery ==
    \E i \in 1..Len(pending) :
        LET q == pending[i] IN
        /\ pending' = SubSeq(pending, 1, i - 1)
                        \o SubSeq(pending, i + 1, Len(pending))
        /\ IF q.op = "insert"
           THEN IF DuplicateStatus(q.json.coin)
                THEN /\ unhandled' = unhandled + 1
                     /\ UNCHANGED user_wallet_status
                ELSE /\ user_wallet_status' =
                           Append(user_wallet_status, InsertedStatus(q.json))
                     /\ UNCHANGED unhandled
           ELSE /\ user_wallet_status' =
                      [n \in 1..Len(user_wallet_status) |->
                          IF user_wallet_status[n].type = q.json.coin
                          THEN SetStatus(user_wallet_status[n], q.json, q.at)
                          ELSE user_wallet_status[n]]
                /\ UNCHANGED unhandled
        /\ UNCHANGED <<heartbeat, now, hbDelivered, heard,
                       notifyvars, parse, gnavars>>

\* ------------------------------------------------- a parseFromIntString call
NoCall == [called |-> FALSE]

Digits == {0, 1, 9}

IntStrings == UNION {[1..m -> Digits] : m \in 0..MaxDigits}

\* parseFromIntString is about to be called with these arguments
ParseCalls ==
    [called : {TRUE}, returned : {FALSE}, intString : IntStrings,
     precision : 1..MaxPrecision, result : {NoCall}]

\* the call returns
ParseReturn ==
    /\ parse.called
    /\ ~parse.returned
    /\ parse' = [parse EXCEPT
                    !.returned = TRUE,
                    !.result = parseFromIntString(parse.intString,
                                                  parse.precision)]
    /\ UNCHANGED <<notifyvars, hbvars, gnavars>>

\* ------------------------------------------------------------ getNewAddress
\* the reply texts: one that is not JSON, and JSON texts for null, a number
\* and objects with isError true, false, absent and the string "true"
RxTexts == {"{oops", "null", "7", "{isError:true,message:A1}",
            "{isError:false,message:A1}", "{message:A1}",
            "{isError:'true',message:A1}"}

\* JSON.parse: the value, or thrown |-> TRUE for a SyntaxError
JSONparse(rxData) ==
    CASE rxData = "{oops" -> [thrown |-> TRUE]
      [] rxData = "null" -> [thrown |-> FALSE, type |-> "null"]
      [] rxData = "7" -> [thrown |-> FALSE, type |-> "number",
                          isError |-> "undefined", message |-> "undefined"]
      [] rxData = "{isError:true,message:A1}" ->
            [thrown |-> FALSE, type |-> "object",
             isError |-> "true", message |-> "A1"]
      [] rxData = "{isError:false,message:A1}" ->
            [thrown |-> FALSE, type |-> "object",
             isError |-> "false", message |-> "A1"]
      [] rxData = "{message:A1}" ->
            [thrown |-> FALSE, type |-> "object",
             isError |-> "undefined", message |-> "A1"]
      [] OTHER ->
            [thrown |-> FALSE, type |-> "object",
             isError |-> "'true'", message |-> "A1"]

\* the first argument of cb: no error, or an error object
NoError == [name |-> "null", message |-> NULL]
SyntaxError == [name |-> "SyntaxError", message |-> "parse"]
TypeError == [name |-> "TypeError", message |-> "property of null"]
Error(message) == [name |-> "Error", message |-> message]

\* what the caller's cb does when it is called: it returns, or it throws
CbThrows == {"no", "Error", "SyntaxError"}

CbError(cb) == IF cb = "SyntaxError" THEN SyntaxError ELSE Error("cb")

\* the catch block: cb(null, rxData) for a SyntaxError, cb(e, null) otherwise
Catch(e, rxData) ==
    IF e.name = "SyntaxError" THEN [error |-> NoError, data |-> rxData]
    ELSE [error |-> e, data |-> NULL]

\* the continuation that getNewAddress gives to sendMsg, as the calls of cb
\* that it makes
ReplyHandler(e, rxData, cb) ==
    IF e # NoError THEN <<>>
    ELSE LET json == JSONparse(rxData) IN
         IF json.thrown THEN <<Catch(SyntaxError, rxData)>>
         ELSE IF json.type # "null" /\ json.isError = "true"
              THEN <<Catch(Error(json.message), rxData)>>
              ELSE IF json.type = "null"
                   THEN <<Catch(TypeError, rxData)>>
                   ELSE IF cb = "no"
                        THEN <<[error |-> NoError, data |-> json.message]>>
                        ELSE <<[error |-> NoError, data |-> json.message],
                               Catch(CbError(cb), rxData)>>

\* getNewAddress(id, cb): this.ic.sendMsg(this.wallet, NEW_ADDRESS, id, ...)
GnaCall ==
    /\ requests < MaxRequests
    /\ gna.called => gna.replied
    /\ \E id \in Users : \E cb \in CbThrows :
          gna' = [called |-> TRUE, replied |-> FALSE, id |-> id, cb |-> cb,
                  e |-> NoError, rxData |-> "", calls |-> <<>>]
    /\ requests' = requests + 1
    /\ UNCHANGED <<notifyvars, hbvars, parse>>

\* the reply, or the failure of the exchange, reaches the continuation
GnaReply ==
    /\ gna.called
    /\ ~gna.replied
    /\ \E e \in {NoError, Error("timeout")} : \E rxData \in RxTexts :
          gna' = [gna EXCEPT !.replied = TRUE, !.e = e,
                             !.rxData = IF e = NoError THEN rxData ELSE "",
                             !.calls = ReplyHandler(e, rxData, gna.cb)]
    /\ UNCHANGED <<requests, notifyvars, hbvars, parse>>

GnaInit == gna = NoCall /\ requests = 0

HbInit ==
    /\ user_wallet_status = <<>>
    /\ heartbeat = [p \in Procs |-> HbIdle]
    /\ pending = <<>>
    /\ now = 1
    /\ hbDelivered = 0
    /\ unhandled = 0
    /\ heard = [c \in Coins |-> <<>>]

\* ------------------------------------------------------------ specification
\* a job row as "Create Job" writes it
Job0 == [state |-> 0, userId |-> NULL, result |-> NULL]

\* the tables when the broker starts: no transaction seen yet, a job row for
\* some of the txids, a zero balance for U1 and no balance row for U2
NotifyInit ==
    /\ user_wallet_tx = <<>>
    /\ user_wallet_job \in UNION {[S -> {Job0}] : S \in SUBSET Txids}
    /\ user_wallet_address =
          [a \in Addresses |->
              CASE a = "A1" -> "U1" [] a = "A2" -> "U1" [] a = "A3" -> "U2"
              [] OTHER -> NULL]
    /\ user_wallet_balance = [u \in {"U1"} |-> 0]
    /\ notify = [p \in Procs |-> Fresh]
    /\ delivered = 0
    /\ credits = [t \in Txids |-> 0]
    /\ promotions = [t \in Txids |-> 0]
    /\ atStart = <<>>
    /\ owed = [t \in Txids |-> [u \in Users |-> 0]]

Init ==
    /\ NotifyInit
    /\ HbInit
    /\ parse = NoCall
    /\ GnaInit

\* handlers overlap: the dispatcher starts a handler per message and does not
\* wait for the previous one.  Invocation 2 is the one that starts while
\* invocation 1 is still running.
DeliverConc ==
    /\ delivered < MaxNotifyConc
    /\ \E p \in Procs : \E json \in Payloads :
          /\ p = 2 => notify[1].pc \notin Resting
          /\ Deliver(p, json)
    /\ UNCHANGED atStart

Next ==
    \/ DeliverConc
    \/ \E p \in Procs : GetJob(p)
    \/ \E p \in Procs : GetTx(p)
    \/ \E p \in Procs : EnsureTx(p)
    \/ \E p \in Procs : ReadTx(p, MaxBalancesConc)
    \/ \E p \in Procs : Attribute(p)
    \/ \E p \in Procs : Finalize(p)
    \/ \E p \in Procs : InsertCredit(p)
    \/ \E p \in Procs : GetBalance(p)
    \/ \E p \in Procs : UpdateBalance(p)

Spec == Init /\ [][Next]_vars

\* one NOTIFY at a time: the next one is delivered after the handler returned
\* json is the payload handled last once more: same txid and confirmations,
\* and the same balances where the handler has looked at them
Redelivery(json, last) ==
    /\ last # undefined
    /\ json.txid = last.txid
    /\ json.confirmations = last.confirmations
    /\ last.read => json = last

DeliverSeq ==
    /\ delivered < MaxNotify
    /\ \E json \in Payloads \cup ({notify[1].json} \ {undefined}) :
          /\ Deliver(1, json)
          /\ atStart' = IF Redelivery(json, notify[1].json)
                        THEN <<tables>> ELSE <<>>

NextSeq ==
    \/ DeliverSeq
    \/ GetJob(1)
    \/ GetTx(1)
    \/ EnsureTx(1)
    \/ ReadTx(1, MaxBalances)
    \/ Attribute(1)
    \/ Finalize(1)
    \/ InsertCredit(1)
    \/ GetBalance(1)
    \/ UpdateBalance(1)

SpecSeq == Init /\ [][NextSeq]_vars

\* the new-address flow, which is outside this class, gives address A4 to a
\* user between two NOTIFYs
MapAddress ==
    /\ notify[1].pc \in Resting
    /\ user_wallet_address["A4"] = NULL
    /\ user_wallet_address' = [user_wallet_address EXCEPT !["A4"] = "U1"]
    /\ UNCHANGED <<tables, notify, delivered, ghosts, atStart, others>>

NextMap ==
    \/ DeliverSeq
    \/ MapAddress
    \/ GetJob(1)
    \/ GetTx(1)
    \/ EnsureTx(1)
    \/ ReadTx(1, MaxBalances)
    \/ Attribute(1)
    \/ Finalize(1)
    \/ InsertCredit(1)
    \/ GetBalance(1)
    \/ UpdateBalance(1)

\* NOTIFYs one at a time, with addresses being given out in between
SpecMap == Init /\ [][NextMap]_vars

\* HEARTBEATs only, the NOTIFY pipeline at rest
HbStart == Init /\ DOMAIN user_wallet_job = {}

\* one HEARTBEAT at a time: the next one is delivered after the handler
\* returned and its query was executed
HbDeliverSeq ==
    /\ hbDelivered < MaxHeartbeat
    /\ pending = <<>>
    /\ \E json \in HbPayloads : HbDeliver(1, json)

NextHbSeq ==
    \/ HbDeliverSeq
    \/ HbCount(1)
    \/ ExecuteQuery

SpecHbSeq == HbStart /\ [][NextHbSeq]_vars

\* HEARTBEATs delivered while earlier ones are still being handled or have
\* their query outstanding
HbDeliverConc ==
    /\ hbDelivered < MaxHeartbeat
    /\ \E p \in Procs : \E json \in HbPayloads : HbDeliver(p, json)

NextHb ==
    \/ HbDeliverConc
    \/ \E p \in Procs : HbCount(p)
    \/ ExecuteQuery

SpecHb == HbStart /\ [][NextHb]_vars

\* calls of parseFromIntString on every short digit string and precision
ParseStart ==
    /\ NotifyInit
    /\ DOMAIN user_wallet_job = {}
    /\ HbInit
    /\ GnaInit
    /\ parse \in ParseCalls

NextParse == ParseReturn

SpecParse == ParseStart /\ [][NextParse]_vars

\* getNewAddress calls only
NextGna ==
    \/ GnaCall
    \/ GnaReply

SpecGna == HbStart /\ [][NextGna]_vars

\* NOTIFY and HEARTBEAT messages in one behaviour, handled one at a time; the
\* query that a HEARTBEAT left outstanding may run while a NOTIFY is handled
DeliverFrame ==
    /\ delivered + hbDelivered < MaxNotifyConc
    /\ heartbeat[1].pc = "idle"
    /\ \E json \in Payloads : Deliver(1, json)
    /\ UNCHANGED atStart

HbDeliverFrame ==
    /\ delivered + hbDelivered < MaxNotifyConc
    /\ notify[1].pc \in Resting
    /\ pending = <<>>
    /\ \E json \in HbPayloads : HbDeliver(1, json)

NextFrame ==
    \/ DeliverFrame
    \/ HbDeliverFrame
    \/ GetJob(1)
    \/ GetTx(1)
    \/ EnsureTx(1)
    \/ ReadTx(1, MaxBalancesConc)
    \/ Attribute(1)
    \/ Finalize(1)
    \/ InsertCredit(1)
    \/ GetBalance(1)
    \/ UpdateBalance(1)
    \/ HbCount(1)
    \/ ExecuteQuery

SpecFrame == Init /\ [][NextFrame]_vars


\* ------------------------------------------------------------------ claims
AllResting == \A p \in Procs : notify[p].pc \in Resting

Type1Rows(txid) == {n \in TxIndexes(txid) : user_wallet_tx[n].txtype = 1}

CreditRows(txid, uid) ==
    {n \in TxIndexes(txid) :
        user_wallet_tx[n].txtype = 3 /\ user_wallet_tx[n].userId = uid}

RECURSIVE SumAmounts(_, _)
SumAmounts(rows, uid) ==
    IF rows = <<>> THEN 0
    ELSE (IF Head(rows).txtype = 3 /\ Head(rows).userId = uid
          THEN Head(rows).amount ELSE 0) + SumAmounts(Tail(rows), uid)

\* the sum of `amount` over the type-3 rows of a user
SumCredits(uid) == SumAmounts(user_wallet_tx, uid)

\* C1: over any sequence of NOTIFY deliveries, at most one invocation per txid
\* inserts type-3 rows and adds to balances
C1_CreditedAtMostOnce == \A t \in Txids : credits[t] <= 1

\* a NOTIFY at or above the threshold has been handled for a txid that an
\* earlier NOTIFY had credited, and it did not enter the credit branch
C1_Witness ==
    /\ notify[1].pc = "replied"
    /\ notify[1].json.confirmations >= ConfirmThreshold
    /\ ~notify[1].json.read
    /\ credits[notify[1].json.txid] = 1

\* C2: whenever no handler is running, every user's balance equals the sum of
\* the amounts of that user's type-3 rows
C2_BalanceMatchesLedger ==
    AllResting =>
        \A u \in Users :
            IF u \in DOMAIN user_wallet_balance
            THEN user_wallet_balance[u] = SumCredits(u)
            ELSE SumCredits(u) = 0

\* C3: overlapping handlers of one txid leave what some serial order of them
\* leaves: one type-1 row for the txid and the credits of one NOTIFY only
C3_SerialOutcome ==
    AllResting =>
        \A t \in Txids : Cardinality(Type1Rows(t)) <= 1 /\ credits[t] <= 1

\* C4: once the handlers have returned, a user credited by two different txids
\* holds the sum of the credited amounts
C4_NoCreditLost ==
    AllResting =>
        \A u \in DOMAIN user_wallet_balance :
            (\E t1, t2 \in Txids :
                t1 # t2 /\ CreditRows(t1, u) # {} /\ CreditRows(t2, u) # {})
            => user_wallet_balance[u] = SumCredits(u)

C6_OneType1Row == \A t \in Txids : Cardinality(Type1Rows(t)) <= 1

\* C7: a NOTIFY delivered again right after it was handled leaves the tables
\* (transaction rows, job rows, balances) as the first delivery left them
C7_Idempotent ==
    (notify[1].pc \in Resting /\ atStart # <<>>) => tables = atStart[1]

\* a crediting NOTIFY (at the threshold, address mapped, user credited) has
\* been delivered a second time and the second handler has returned
C7_Witness ==
    /\ notify[1].pc \in Resting
    /\ atStart # <<>>
    /\ notify[1].json.read
    /\ \E u \in DOMAIN user_wallet_balance :
          /\ CreditRows(notify[1].json.txid, u) # {}
          /\ user_wallet_balance[u] > 0

\* C8: the confirms of a type-1 row never decreases
C8_ConfirmsNonDecreasing ==
    [][\A n \in 1..Len(user_wallet_tx) :
          user_wallet_tx[n].txtype = 1
            => user_wallet_tx'[n].confirms >= user_wallet_tx[n].confirms]_vars

\* C9: a type-1 row that is complete stays complete, whatever NOTIFY follows
\* and however the handlers interleave
C9_CompleteIsStable ==
    [][\A n \in 1..Len(user_wallet_tx) :
          (user_wallet_tx[n].txtype = 1 /\ user_wallet_tx[n].complete)
            => user_wallet_tx'[n].complete]_vars

\* a complete type-1 row whose confirms a later NOTIFY has set below the
\* threshold
C9_Witness ==
    \E n \in 1..Len(user_wallet_tx) :
        /\ user_wallet_tx[n].txtype = 1
        /\ user_wallet_tx[n].complete
        /\ user_wallet_tx[n].confirms < ConfirmThreshold

\* C10: a job's state is 0 or 3, never leaves 3, and the job row is written
\* by one NOTIFY only
C10_JobMonotonic ==
    /\ [](\A t \in DOMAIN user_wallet_job :
            /\ user_wallet_job[t].state \in {0, 3}
            /\ promotions[t] <= 1)
    /\ [][\A t \in DOMAIN user_wallet_job :
            /\ t \in DOMAIN user_wallet_job'
            /\ user_wallet_job[t].state = 3 => user_wallet_job'[t].state = 3]_vars

\* a NOTIFY at the threshold has been handled for a txid whose job an earlier
\* NOTIFY had moved to state 3, and it did not enter the "Check Job" branch
C10_Witness ==
    /\ notify[1].pc = "replied"
    /\ notify[1].json.confirmations >= ConfirmThreshold
    /\ ~notify[1].json.read
    /\ notify[1].json.txid \in DOMAIN user_wallet_job
    /\ user_wallet_job[notify[1].json.txid].state = 3

\* C11: a NOTIFY one of whose database steps failed leaves none of its
\* writes.  Handled one after the other, a NOTIFY enters the credit branch only
\* when its txid has no complete row and no type-3 row yet, so after a failure
\* in that branch the txid still has none
C11_AtomicNotify ==
    (notify[1].pc = "rejected" /\ notify[1].json.read)
        => \A n \in TxIndexes(notify[1].json.txid) :
              ~user_wallet_tx[n].complete /\ user_wallet_tx[n].txtype # 3

\* the sum over the txids of what their completing NOTIFY carried for a user
OwedSum(u) == owed["T1"][u] + owed["T2"][u]

\* C12: once the handler has returned, each user's balance is the sum over the
\* txids of the amount that the NOTIFY which completed the txid carried for
\* the user (the balances start at zero)
C12_BalanceIsCompletingAmount ==
    notify[1].pc \in Resting =>
        \A u \in DOMAIN user_wallet_balance : user_wallet_balance[u] = OwedSum(u)

\* the txid has a type-1 row that is complete
CompleteType1(txid) == \E n \in Type1Rows(txid) : user_wallet_tx[n].complete

\* the handler is at work on a NOTIFY that found its txid complete: it has not
\* entered the "Check Job" branch
RefreshOnly ==
    /\ notify[1].pc \notin Resting
    /\ ~notify[1].json.read
    /\ CompleteType1(notify[1].json.txid)

\* C13: a NOTIFY for a txid whose type-1 row is complete sets that row's
\* confirms and changes neither a complete flag, nor a type-3 row, nor a job
\* row, nor a balance
C13_CompleteRefreshOnly ==
    /\ []((/\ notify[1].pc = "replied"
           /\ ~notify[1].json.read
           /\ CompleteType1(notify[1].json.txid))
          => \A n \in Type1Rows(notify[1].json.txid) :
                user_wallet_tx[n].confirms = notify[1].json.confirmations)
    /\ [][RefreshOnly =>
            /\ Len(user_wallet_tx') = Len(user_wallet_tx)
            /\ \A n \in 1..Len(user_wallet_tx) :
                  /\ user_wallet_tx'[n].complete = user_wallet_tx[n].complete
                  /\ user_wallet_tx[n].txtype = 3
                        => user_wallet_tx'[n] = user_wallet_tx[n]
            /\ user_wallet_job' = user_wallet_job
            /\ user_wallet_balance' = user_wallet_balance]_vars

\* the handler has returned from the first NOTIFY delivered
FirstHandled ==
    /\ delivered = 1
    /\ notify[1].pc \in {"replied", "rejected"}

\* C14: after the first NOTIFY, if it was below the threshold, the txid has
\* exactly one type-1 row, with confirms = confirmations, complete = false and
\* processed = false, and a job row in state 0; there is no type-3 row and no
\* balance has changed
C14_FirstSighting ==
    (FirstHandled /\ notify[1].json.confirmations < ConfirmThreshold)
        => LET json == notify[1].json IN
           /\ Cardinality(Type1Rows(json.txid)) = 1
           /\ \A n \in Type1Rows(json.txid) :
                 /\ user_wallet_tx[n].confirms = json.confirmations
                 /\ ~user_wallet_tx[n].complete
                 /\ ~user_wallet_tx[n].processed
           /\ json.txid \in DOMAIN user_wallet_job
           /\ user_wallet_job[json.txid].state = 0
           /\ \A n \in 1..Len(user_wallet_tx) : user_wallet_tx[n].txtype # 3
           /\ user_wallet_balance = [u \in {"U1"} |-> 0]

\* C15: after the first NOTIFY, if it was at or above the threshold and listed
\* one address, owned by a user U who has a balance row, the type-1 row is
\* complete and processed with confirms = confirmations, the job row is in
\* state 3 with userId = U and result "okay", there is exactly one type-3 row
\* for (txid, U), complete and carrying the parsed amount, and U's balance has
\* grown by that amount; and this whether or not the txid had a job row
C15_ThresholdCredit ==
    (/\ FirstHandled
     /\ notify[1].json.confirmations >= ConfirmThreshold
     /\ notify[1].json.read =>
           /\ Len(notify[1].json.balances) = 1
           /\ user_wallet_address[notify[1].json.balances[1].address]
                 \in DOMAIN user_wallet_balance)
        => /\ notify[1].json.read
           /\ LET json == notify[1].json
                  U == user_wallet_address[json.balances[1].address]
                  amount == Amount(json.balances[1].balance)
              IN
              /\ Cardinality(Type1Rows(json.txid)) = 1
              /\ \A n \in Type1Rows(json.txid) :
                    /\ user_wallet_tx[n].complete
                    /\ user_wallet_tx[n].processed
                    /\ user_wallet_tx[n].confirms = json.confirmations
              /\ json.txid \in DOMAIN user_wallet_job
              /\ user_wallet_job[json.txid] =
                    [state |-> 3, userId |-> U, result |-> "okay"]
              /\ Cardinality(CreditRows(json.txid, U)) = 1
              /\ \A n \in CreditRows(json.txid, U) :
                    /\ user_wallet_tx[n].complete
                    /\ user_wallet_tx[n].amount = amount
              /\ user_wallet_balance[U] = amount

\* no address listed by the NOTIFY belongs to a user
NoneMapped(json) ==
    \A n \in 1..Len(json.balances) :
        user_wallet_address[json.balances[n].address] = NULL

\* the txid was completed by a NOTIFY that attributed nothing
CompletedUnattributed(txid) ==
    /\ CompleteType1(txid)
    /\ \A u \in Users : owed[txid][u] = 0

\* C16: a NOTIFY at or above the threshold none of whose addresses is mapped
\* writes no job row, no type-3 row and no balance and sets the type-1 row
\* complete, so that the row is complete once the handler has returned; from
\* then on the txid has no type-3 row, its job stays in state
\* 0 and nobody is credited for it, whatever NOTIFY follows and also once the
\* address has been given to a user
C16_UnmappedCompletes ==
    /\ [][(/\ notify[1].pc \notin Resting
           /\ notify[1].json.read
           /\ NoneMapped(notify[1].json))
          => /\ user_wallet_job' = user_wallet_job
             /\ user_wallet_balance' = user_wallet_balance
             /\ Len(user_wallet_tx') = Len(user_wallet_tx)
             /\ notify[1].pc = "finalize"
                   => /\ notify'[1].pc = "replied"
                      /\ CompleteType1(notify[1].json.txid)']_vars
    /\ []((/\ notify[1].pc \in {"replied", "rejected"}
           /\ notify[1].json.confirmations >= ConfirmThreshold
           /\ notify[1].json.read => NoneMapped(notify[1].json))
          => CompleteType1(notify[1].json.txid))
    /\ [](\A t \in Txids :
            CompletedUnattributed(t)
              => /\ \A n \in TxIndexes(t) : user_wallet_tx[n].txtype # 3
                 /\ credits[t] = 0
                 /\ user_wallet_job[t].state = 0)

\* no HEARTBEAT is being handled and no query is outstanding
HbQuiet ==
    /\ \A p \in Procs : heartbeat[p].pc = "idle"
    /\ pending = <<>>

StatusRows(coin) ==
    {n \in 1..Len(user_wallet_status) : user_wallet_status[n].type = coin}

\* the row holds every value of the heartbeat h, updatedAt included
HoldsHeartbeat(row, h) ==
    /\ row.online = h.json.online
    /\ row.synced = h.json.synced
    /\ row.crawling = h.json.crawling
    /\ row.blockheight = h.json.blockheight
    /\ row.blockhash = h.json.bestBlockHash
    /\ row.blocktime = h.json.blocktime
    /\ row.updatedAt = h.at

\* C17: after HEARTBEATs handled one after the other there is exactly one row
\* per coin that has sent a heartbeat, no row for the other coins, and the row
\* holds the values and the updatedAt of the last heartbeat of its coin, also
\* when that heartbeat was the first one of the coin
C17_StatusIsLastHeartbeat ==
    HbQuiet =>
        \A c \in Coins :
            IF heard[c] = <<>> THEN StatusRows(c) = {}
            ELSE /\ Cardinality(StatusRows(c)) = 1
                 /\ \A n \in StatusRows(c) :
                       HoldsHeartbeat(user_wallet_status[n],
                                      heard[c][Len(heard[c])])

\* C18: when the HEARTBEAT handlers of a coin overlap, there is in the end
\* exactly one row for the coin, holding the values of one of the heartbeats,
\* and no handler has failed with an error that nobody handles
C18_OverlapLastWriterWins ==
    HbQuiet =>
        /\ unhandled = 0
        /\ \A c \in Coins :
              heard[c] # <<>> =>
                 /\ Cardinality(StatusRows(c)) = 1
                 /\ \A n \in StatusRows(c) :
                       \E k \in 1..Len(heard[c]) :
                          HoldsHeartbeat(
                             [user_wallet_status[n] EXCEPT
                                 !.updatedAt = heard[c][k].at],
                             heard[c][k])

\* C19: parseFromIntString(s, p) returns "<int>.<frac>" where frac has exactly
\* p digits, int is s without its last p digits when s is longer than p and
\* "0" otherwise, and int followed by frac denotes the same integer as s
C19_ParseKeepsValue ==
    (parse.called /\ parse.returned) =>
        LET s == parse.intString
            p == parse.precision
            r == parse.result
        IN
        /\ Len(r.decimals) = p
        /\ r.integers = IF Len(s) > p THEN SubSeq(s, 1, Len(s) - p) ELSE <<0>>
        /\ DigitsValue(r.integers \o r.decimals) = DigitsValue(s)

\* the parser has returned for a string shorter than the precision that
\* begins with a digit other than 0, and has padded it
C19_Witness ==
    /\ parse.called
    /\ parse.returned
    /\ Len(parse.intString) > 0
    /\ Len(parse.intString) < parse.precision
    /\ parse.intString[1] # 0
    /\ parse.result.decimals[1] = 0

\* what the callback is to receive for a reply text
Outcome(rxData) ==
    LET json == JSONparse(rxData) IN
    IF json.thrown THEN [error |-> NoError, data |-> rxData]
    ELSE IF json.type # "null" /\ json.isError = "true"
         THEN [error |-> Error(json.message), data |-> NULL]
         ELSE [error |-> NoError,
               data |-> IF json.type = "null" THEN "undefined"
                        ELSE json.message]

\* C20: for every reply text received, the callback is called exactly once:
\* with an error carrying message when the text parses and isError is true,
\* with message and no error when it parses and isError is not true, with the
\* text itself and no error when it does not parse
C20_OneOutcomePerReply ==
    (gna.called /\ gna.replied /\ gna.e = NoError)
        => gna.calls = <<Outcome(gna.rxData)>>

\* C21: for every getNewAddress request whose exchange has ended, the
\* caller's cb has been called exactly once: with an error when the transport
\* reported one, with no error when a reply arrived and was delivered
C21_CallbackExactlyOnce ==
    (gna.called /\ gna.replied) =>
        /\ Len(gna.calls) = 1
        /\ gna.e # NoError => gna.calls[1].error # NoError

\* C22: a handler that has returned has called sendReply, once: the NOTIFY
\* handler never ends without its reply, also when a database operation
\* failed (the HEARTBEAT handler's only way out in HbCount is its reply)
C22_AlwaysReplied == notify[1].pc # "rejected"

\* the positions of json.balances whose address belongs to a user
MappedEntries(balances) ==
    {n \in 1..Len(balances) : user_wallet_address[balances[n].address] # NULL}

\* the owner of the first listed address that belongs to a user
FirstAttributed(balances) ==
    LET first == CHOOSE n \in MappedEntries(balances) :
                    \A m \in MappedEntries(balances) : n <= m
    IN user_wallet_address[balances[first].address]

\* C23: once the attribution loop of a NOTIFY is over, the job of its txid is
\* in state 3 and carries the userId of the first attributed address of the
\* list, whatever other users the later addresses belong to
C23_JobKeepsFirstUser ==
    (/\ notify[1].pc \in {"finalize", "insertCredit", "getBalance",
                          "updateBalance"}
     /\ MappedEntries(notify[1].json.balances) # {})
        => /\ user_wallet_job[notify[1].json.txid].state = 3
           /\ user_wallet_job[notify[1].json.txid].userId
                 = FirstAttributed(notify[1].json.balances)

\* the NOTIFY handler is in its credit loop
Crediting == notify[1].pc \in {"insertCredit", "getBalance", "updateBalance"}

\* C24: in the credit loop every attributed address is there once, also when
\* the list named it several times; the type-3 row written for it carries the
\* amount of the last entry of the list for that address, and the owner's
\* balance grows by that amount
C24_RepeatedAddressLastWins ==
    /\ [](Crediting =>
             \A i, j \in 1..Len(notify[1].users) :
                 i # j => notify[1].users[i].address
                             # notify[1].users[j].address)
    /\ [][(notify[1].pc = "insertCredit" /\ notify'[1].pc = "getBalance")
            => /\ Len(user_wallet_tx') = Len(user_wallet_tx) + 1
               /\ user_wallet_tx'[Len(user_wallet_tx')].amount =
                     Amount(LastEntry(notify[1].json.balances,
                               notify[1].users[notify[1].usr].address).balance)
          ]_vars
    /\ [][notify[1].pc = "updateBalance"
            => LET entry == notify[1].users[notify[1].usr]
                   uid == entry.value.userId
               IN user_wallet_balance'[uid] =
                     user_wallet_balance[uid]
                       + Amount(LastEntry(notify[1].json.balances,
                                          entry.address).balance)]_vars

\* a NOTIFY that listed one address twice, with two different balances, has
\* been handled, and its owner holds the amount of the second entry
C24_Witness ==
    /\ FirstHandled
    /\ notify[1].pc = "replied"
    /\ notify[1].json.read
    /\ Len(notify[1].json.balances) = 2
    /\ notify[1].json.balances[1].address = notify[1].json.balances[2].address
    /\ notify[1].json.balances[1].balance # notify[1].json.balances[2].balance
    /\ \E u \in DOMAIN user_wallet_balance :
          /\ user_wallet_address[notify[1].json.balances[1].address] = u
          /\ Cardinality(CreditRows(notify[1].json.txid, u)) = 1
          /\ user_wallet_balance[u] = Amount(notify[1].json.balances[2].balance)

\* C25: once the handler has returned, every user for whom a type-3 row was
\* inserted has a balance row, created if need be, and it holds what was
\* credited to the user
C25_BalanceRowCreated ==
    notify[1].pc \in Resting =>
        \A u \in Users :
            (\E t \in Txids : CreditRows(t, u) # {})
                => /\ u \in DOMAIN user_wallet_balance
                   /\ user_wallet_balance[u] = SumCredits(u)

\* C26: a NOTIFY with confirmations >= 0 leaves its txid with a job row (the
\* one it found, or one it created in state 0 because the txid was not
\* complete), and a job row appears only in state 0, for the txid of the
\* NOTIFY at work, when its confirmations are >= 0 and the txid is not complete
C26_JobCreatedInState0 ==
    /\ []((/\ notify[1].pc \in {"replied", "rejected"}
           /\ notify[1].json.confirmations >= 0
           /\ ~CompleteType1(notify[1].json.txid))
          => notify[1].json.txid \in DOMAIN user_wallet_job)
    /\ [][\A t \in DOMAIN user_wallet_job' \ DOMAIN user_wallet_job :
             /\ notify[1].pc \notin Resting
             /\ notify[1].json.txid = t
             /\ notify[1].json.confirmations >= 0
             /\ ~CompleteType1(t)
             /\ user_wallet_job'[t].state = 0]_vars

\* C27: a type-1 row that is processed is complete, and the two flags of a
\* row change only together, both to true, in the finalize update of a NOTIFY
\* whose confirmations are at or above the threshold
C27_ProcessedImpliesComplete ==
    /\ [](\A n \in 1..Len(user_wallet_tx) :
             (user_wallet_tx[n].txtype = 1 /\ user_wallet_tx[n].processed)
                => user_wallet_tx[n].complete)
    /\ [][\A n \in 1..Len(user_wallet_tx) :
             (\/ user_wallet_tx'[n].processed # user_wallet_tx[n].processed
              \/ user_wallet_tx'[n].complete # user_wallet_tx[n].complete)
                => /\ user_wallet_tx'[n].processed
                   /\ user_wallet_tx'[n].complete
                   /\ \E p \in Procs :
                         /\ notify[p].pc = "finalize"
                         /\ notify[p].json.txid = user_wallet_tx[n].txid
                         /\ notify[p].json.confirmations >= ConfirmThreshold
          ]_vars

\* a type-1 row has been set processed and complete by a finalize update
C27_Witness ==
    \E n \in 1..Len(user_wallet_tx) :
        /\ user_wallet_tx[n].txtype = 1
        /\ user_wallet_tx[n].processed
        /\ user_wallet_tx[n].complete

\* C28: whenever no NOTIFY handler is at work, a job in state 3 carries a
\* userId for whom its txid has a type-3 row, and the type-1 row of the txid
\* is complete
C28_ProcessedJobHasCredit ==
    notify[1].pc \in Resting =>
        \A t \in DOMAIN user_wallet_job :
            user_wallet_job[t].state = 3
                => /\ CreditRows(t, user_wallet_job[t].userId) # {}
                   /\ CompleteType1(t)

\* what a step of the NOTIFY handler at work on txid T may change: rows of
\* user_wallet_tx whose txid is T, the job row of T, and the balance of a
\* user who owns an address listed by the NOTIFY
NotifyFrame(T, balances) ==
    /\ Len(user_wallet_tx') >= Len(user_wallet_tx)
    /\ \A n \in 1..Len(user_wallet_tx') :
          IF n <= Len(user_wallet_tx)
          THEN /\ user_wallet_tx'[n].txid = user_wallet_tx[n].txid
               /\ user_wallet_tx[n].txid # T
                     => user_wallet_tx'[n] = user_wallet_tx[n]
          ELSE user_wallet_tx'[n].txid = T
    /\ DOMAIN user_wallet_job \subseteq DOMAIN user_wallet_job'
    /\ DOMAIN user_wallet_job' \subseteq DOMAIN user_wallet_job \cup {T}
    /\ \A t \in DOMAIN user_wallet_job \ {T} :
          user_wallet_job'[t] = user_wallet_job[t]
    /\ DOMAIN user_wallet_balance' = DOMAIN user_wallet_balance
    /\ \A u \in DOMAIN user_wallet_balance :
          user_wallet_balance'[u] # user_wallet_balance[u]
             => \E n \in 1..Len(balances) :
                   user_wallet_address[balances[n].address] = u
    /\ user_wallet_address' = user_wallet_address
    /\ user_wallet_status' = user_wallet_status

\* what a step of the HEARTBEAT pipeline may change: the user_wallet_status
\* rows of the coin of the query that is executed
HeartbeatFrame ==
    /\ tables' = tables
    /\ user_wallet_address' = user_wallet_address
    /\ user_wallet_status' # user_wallet_status
          => \E i \in 1..Len(pending) :
                LET coin == pending[i].json.coin IN
                /\ Len(user_wallet_status') >= Len(user_wallet_status)
                /\ \A n \in 1..Len(user_wallet_status') :
                      IF n <= Len(user_wallet_status)
                      THEN /\ user_wallet_status'[n].type
                                 = user_wallet_status[n].type
                           /\ user_wallet_status[n].type # coin
                                 => user_wallet_status'[n]
                                       = user_wallet_status[n]
                      ELSE user_wallet_status'[n].type = coin

=============================================================================
